---- MODULE Spec2Model ----
(***************************************************************************)
(* Model of the mxcube video streamer frame relay:                         *)
(*   - the dual-stream application's session manager                       *)
(*     (server.py, create_mjpegduo_app) and the sessions it holds          *)
(*     (streamer.py, MJPEGDuoStreamer);                                     *)
(*   - the producer -> Frame Channel -> consumer path                      *)
(*     (camera.py, Camera.poll_image and its source variants);             *)
(*   - the size-based demultiplexer (camera.py, LimaCameraDuo.get_jpeg).   *)
(*   - the Tango device controller that forks the streaming server and    *)
(*     shuts it down (tango/MJPEGDuoStreamer.py).                          *)
(* Each part has its own specification; a part's variables keep their      *)
(* initial value under the other parts' specifications.                    *)
(***************************************************************************)
EXTENDS Integers, Sequences, FiniteSets, TLC

(***************************************************************************)
(* Bounds of the model.                                                    *)
(***************************************************************************)
\* client identities (host, port) that send requests
NumClients == 3
\* largest configured max_concurrent_streams
MaxCap == 2
\* number of MJPEGDuoStreamer objects created in one run
MaxSessions == 3
\* number of stream requests (frame sequences handed out) in one run
MaxRequests == 3
\* number of producer processes spawned in one run
MaxProcs == 2
\* number of stream requests in one run with concurrent handlers
ConcRequests == 2
\* number of server processes the device controller forks in one run
MaxStarts == 2
\* number of requests to the single-stream application in one run
MaxFeeds == 3

\* largest value of a source's frame counter
MaxFrame == 1
\* the clock advances in steps of TickStep up to MaxTime
TickStep == 30
MaxTime == 90
\* largest width and height of the small sources
MaxDim == 2

\* Camera.FULL_QUEUE_TIMEOUT
FULL_QUEUE_TIMEOUT == 60
\* multiprocessing.Queue(1): the capacity of the Frame Channel
QueueSize == 1

Clients == 1..NumClients
Threads == {1, 2}
Sids == 1..MaxSessions
Gids == 1..MaxRequests
Pids == 1..MaxProcs
None == 0
NoGoodbye == [client |-> None, streamer |-> None]

\* the source variants, the two sources of the dual variant, and frames:
\* a frame is the source it came from and its frame number
Variants == {"test", "lima", "duo", "mjpeg"}
Sources == {0, 1}
NoFrame == [src |-> -1, n |-> -1]
Frame(i, n) == [src |-> i, n |-> n]

VARIABLES
    \* ---- session manager (server.py, create_mjpegduo_app) ----
    max_concurrent_streams, \* config.max_concurrent_streams
    client2streamer,        \* the dict, as its items in insertion order
    server,                 \* "running" | "exited" | "shutdown_failed"
    hpc,                    \* position of each request handler thread
    hclient,                \* (request.client.host, request.client.port)
    hstreamer,              \* the local streamer of video_feed
    hgoodbye,               \* goodbye_client / goodbye_stream of video_feed
    hidx,                   \* position of shutdown_request in items()
    hlen,                   \* len(client2streamer) when that iteration began
    handler_error,          \* the last exception that left a handler:
                            \* "none" | "KeyError" | "RuntimeError"
    last_image_response,    \* what the last /last_image request returned:
                            \* "none" | "404" | "jpeg" | "empty"
    \* ---- sessions (streamer.py, MJPEGDuoStreamer) ----
    nsessions,              \* streamer objects constructed so far
    fastapi_request,        \* streamer -> client identity of its request
    session_last_frame,     \* streamer -> its _last_frame is not None
    poll_image_p,           \* streamer -> its _poll_image_p (None or a pid)
    owner,                  \* pid -> the streamer that spawned it (or None)
    alive,                  \* pids of the running producer processes
    gens,                   \* frame sequences returned by start(): the
                            \* streamer, the state, the producer spawned,
                            \* the number of frames in the local _q, and
                            \* late: it yielded a chunk after stop()
    stopped,                \* streamers on which stop() has been called
    \* ---- one producer -> channel -> consumer path (camera.py) ----
    variant,                \* "test" | "lima" | "duo" | "mjpeg"
    now,                    \* time.time()
    write_successfull_timestamp,
    ppc,                    \* position of the producer process
    poll_exc,               \* what the last _poll_once raised: "none" |
                            \* "Exception" | "BrokenPipeError"
    q,                      \* the Frame Channel _q
    sink,                   \* the producer's _output: "queue", or "pipe",
                            \* the stdin of the ffmpeg subprocess
    ffmpeg,                 \* "none" | "running" | "exited"
    ffmpeg_streamer,        \* the fields of the FFMPGStreamer
    video_live,             \* device attribute video_live, per source
    video_last_image_counter, \* device attribute, per source
    secondary,              \* _lima_tango_device_secondary is not None
    connected,              \* the sources whose _connect succeeded
    last_frame_number,      \* _last_frame_number
    last_use_secondary,     \* _last_use_secondary: -1 (None), 0, 1
    use_secondary,          \* use_secondary of the last LimaCameraDuo cycle
    read_failed,            \* the read that failed in the last cycle:
                            \* "none" | "attr" (live flag, counter) | "image"
                            \* | "short", "dims" (malformed header)
    last_put,               \* the last frame handed to _write_data
    observed,               \* source -> the frame counter of that source
                            \* the dual producer last fetched, or -1
    fetched,                \* the last LimaCameraDuo cycle called
                            \* _get_image
    slept,                  \* the last _poll_once reached its time.sleep
    logged,                 \* the transition log of the _poll_once that
                            \* has just returned
    cpc,                    \* position of the consumer (start())
    last_frame,             \* the consumer's _last_frame
    emitted,                \* the last frame the consumer emitted
    nchunks,                \* number of chunks the consumer has yielded,
                            \* modulo 2
    emitted_n,              \* source -> frame number of the last frame of
                            \* that source the consumer emitted, or -1
    \* ---- LimaCameraDuo.get_jpeg (camera.py) ----
    widths, heights,        \* _widths, _heights, per source
    video_modes,            \* _video_modes, per source
    images_resize,          \* _images_resize, per source
    images_crop,            \* _images_crop, per source
    images_rotate,          \* _images_rotate, per source
    images_flip,            \* _images_flip, per source
    len_data,               \* len(data) of the buffer handed to get_jpeg
    dont_resize,            \* the argument dont_resize
    jpc,                    \* "call" | "returned"
    result,                 \* what get_jpeg returned
    \* ---- the Tango device controller (tango/MJPEGDuoStreamer.py) ----
    streamerProcess,        \* None or the pid of the forked server
    videoURL,               \* "" or the stream's URL
    startedHost,            \* "" or the host the server was started on
    startedPort,            \* "" or the port the server was started on
    uvicorn,                \* pid -> "none" | "alive" | "dead"
    nstarts,                \* server processes forked so far
    tpc,                    \* position of the running command: "idle" |
                            \* "sd_get" | "sd_term" | "sd_kill" | "sd_clear"
    tresult,                \* result of the last command
    sd_trace,               \* what shutdown_uvicorn_server has attempted
    get_outcome,            \* how its GET /shutdown ended
    kill_raised,            \* the os.kill of it that raised, or "none"
    \* the single-stream application (create_mjpeg_app)
    mjpeg_gen,              \* the frame sequences start() returned
    mjpeg_poll_image_p,     \* MJPEGStreamer._poll_image_p
    mjpeg_alive,            \* the producers of the streamer that are alive
    mjpeg_stopped           \* stop() was called

\* the dict and the server process
mvars == <<max_concurrent_streams, client2streamer, server>>
\* locals of the request handlers
hvars == <<hpc, hclient, hstreamer, hgoodbye, hidx, hlen>>
\* the streamer objects and their producer processes
procvars == <<poll_image_p, owner, alive, stopped>>

\* the streamer objects constructed
sessvars == <<nsessions, fastapi_request, session_last_frame>>

svars == <<mvars, hvars, procvars, sessvars, gens, last_image_response,
          handler_error>>

\* the devices
dvars == <<video_live, video_last_image_counter, secondary, connected>>
\* the producer process
\* what the dual producer has fetched
detvars == <<observed, fetched>>

\* what the last poll cycle did besides polling
cycvars == <<slept, logged>>

prodvars == <<ppc, poll_exc, write_successfull_timestamp, last_frame_number,
              last_use_secondary, use_secondary, read_failed, last_put,
              detvars, cycvars>>
\* the consumer
consvars == <<cpc, last_frame, emitted, emitted_n, nchunks>>

\* the sink of the transcode path
sinkvars == <<sink, ffmpeg, ffmpeg_streamer>>

pvars == <<variant, now, q, dvars, prodvars, consvars, sinkvars>>

\* the configuration of a LimaCameraDuo
camvars == <<widths, heights, video_modes, images_resize, images_crop,
             images_rotate, images_flip>>

jvars == <<camvars, len_data, dont_resize, jpc, result>>

\* the device controller
tvars == <<streamerProcess, videoURL, startedHost, startedPort, uvicorn,
           nstarts, tpc, tresult, sd_trace, get_outcome, kill_raised>>

appvars == <<mjpeg_gen, mjpeg_poll_image_p, mjpeg_alive, mjpeg_stopped>>

vars == <<svars, pvars, jvars, tvars, appvars>>

\* data is None
DataNone == -1
\* get_jpeg returned (None, None)
NoneResult ==
    [camera_index |-> -1, jpeg |-> FALSE, raised |-> FALSE, mode |-> "",
     native |-> <<0, 0>>, size |-> <<0, 0>>, ops |-> <<>>]
\* Image.frombytes raised inside get_jpeg
RaisedResult == [NoneResult EXCEPT !.raised = TRUE]

\* the path's variables when no path is modelled
\* FFMPGStreamer.__init__, lines 77-78, and what start() makes of it
FfmpegUnstarted == [ffmpeg_process |-> "None", poll_image_p |-> "None"]
FfmpegStarted == [ffmpeg_process |-> "Popen", poll_image_p |-> "Process"]

PIdle ==
    /\ variant = "test"
    /\ sink = "queue"
    /\ ffmpeg = "none"
    /\ ffmpeg_streamer = FfmpegUnstarted
    /\ now = 0
    /\ write_successfull_timestamp = 0
    /\ ppc = "done"
    /\ poll_exc = "none"
    /\ q = <<>>
    /\ video_live = [i \in Sources |-> FALSE]
    /\ video_last_image_counter = [i \in Sources |-> 0]
    /\ secondary = FALSE
    /\ connected = [i \in Sources |-> FALSE]
    /\ last_frame_number = -1
    /\ last_use_secondary = -1
    /\ use_secondary = -1
    /\ read_failed = "none"
    /\ last_put = NoFrame
    /\ observed = [i \in Sources |-> -1]
    /\ fetched = FALSE
    /\ slept = FALSE
    /\ logged = "none"
    /\ cpc = "ended"
    /\ last_frame = NoFrame
    /\ emitted = NoFrame
    /\ emitted_n = [i \in Sources |-> -1]
    /\ nchunks = 0

\* the demultiplexer's variables when it is not modelled
JIdle ==
    /\ widths = [i \in Sources |-> -1]
    /\ heights = [i \in Sources |-> -1]
    /\ video_modes = [i \in Sources |-> "RGB24"]
    /\ images_resize = [i \in Sources |-> <<0, 0>>]
    /\ images_crop = [i \in Sources |-> <<0, 0>>]
    /\ images_rotate = [i \in Sources |-> 0]
    /\ images_flip = [i \in Sources |-> <<FALSE, FALSE>>]
    /\ len_data = DataNone
    /\ dont_resize = FALSE
    /\ jpc = "returned"
    /\ result = NoneResult

\* the device controller after init_device
TInit ==
    /\ streamerProcess = None
    /\ videoURL = ""
    /\ startedHost = ""
    /\ startedPort = ""
    /\ uvicorn = [p \in 1..MaxStarts |-> "none"]
    /\ nstarts = 0
    /\ tpc = "idle"
    /\ tresult = ""
    /\ sd_trace = <<>>
    /\ get_outcome = "none"
    /\ kill_raised = "none"

\* create_mjpeg_app: MJPEGStreamer.__init__ spawns nothing
AInit ==
    /\ mjpeg_gen = [g \in 1..MaxFeeds |-> "none"]
    /\ mjpeg_poll_image_p = None
    /\ mjpeg_alive = {}
    /\ mjpeg_stopped = FALSE

(***************************************************************************)
(* Helpers on the dict client2streamer.                                    *)
(***************************************************************************)
Keys(d) == {d[i].client : i \in 1..Len(d)}
Streamers(d) == {d[i].streamer : i \in 1..Len(d)}
Lookup(d, c) == d[CHOOSE i \in 1..Len(d) : d[i].client = c].streamer
RECURSIVE Pop(_, _)
Pop(d, c) ==
    IF d = <<>> THEN <<>>
    ELSE IF Head(d).client = c THEN Tail(d)
         ELSE <<Head(d)>> \o Pop(Tail(d), c)

\* d[c] = s: a new key goes to the end, an existing key keeps its place
SetItem(d, c, s) ==
    IF c \in Keys(d)
    THEN [i \in 1..Len(d) |->
            IF d[i].client = c THEN [client |-> c, streamer |-> s] ELSE d[i]]
    ELSE Append(d, [client |-> c, streamer |-> s])

\* the video_feed handlers that are past the lookup and before the response
InFlight ==
    Cardinality({t \in Threads :
                    hpc[t] \in {"vf_check", "vf_stop", "vf_pop", "vf_create"}})

\* the stream requests received so far
Requests ==
    Len(gens) + Cardinality({t \in Threads : hpc[t] = "vf_return"}) + InFlight

\* the client identities that have sent a stream request
Seen ==
    ({fastapi_request[s] : s \in 1..nsessions}
        \cup {hclient[t] : t \in Threads}) \ {None}

\* client identities are interchangeable: a request comes from a client
\* seen before or from the first identity not seen yet
NextClient(c) == c <= Cardinality(Seen) + 1

AllIdle == \A t \in Threads : hpc[t] = "idle"

\* no handler is running and every response handed out has begun to stream
Quiescent ==
    /\ AllIdle
    /\ \A g \in 1..Len(gens) : gens[g].st # "created"

(***************************************************************************)
(* MJPEGDuoStreamer.stop: kill the producer and clear the handle, only     *)
(* when a handle is set.                                                   *)
(***************************************************************************)
stop(s) ==
    /\ stopped' = stopped \cup {s}
    /\ IF poll_image_p[s] # None
       THEN /\ alive' = alive \ {poll_image_p[s]}
            /\ poll_image_p' = [poll_image_p EXCEPT ![s] = None]
       ELSE UNCHANGED <<alive, poll_image_p>>
    /\ UNCHANGED owner

(***************************************************************************)
(* video_feed: GET /video/<hash>.                                          *)
(***************************************************************************)
\* the capacity test with an off-by-one comparison
AtCapacityStrict(n, cap) == n > cap

\* the capacity test of video_feed
AtCapacity(n, cap) == n >= cap

\* evicting the most recently inserted key instead
GoodbyeIndexNewest(d) == Len(d)

\* the session video_feed evicts: list(client2streamer.keys())[0]
GoodbyeIndex(d) == 1

\* a lookup that always raises KeyError
HasSessionNever(d, c) == FALSE

\* client2streamer[(host, port)] does not raise KeyError
HasSession(d, c) == c \in Keys(d)

\* streamer = client2streamer[(host, port)], or KeyError
VideoFeedLookup(t, c) ==
    /\ server = "running"
    /\ hpc[t] = "idle"
    /\ Requests < MaxRequests
    /\ c \notin Keys(client2streamer) => nsessions + InFlight < MaxSessions
    /\ hclient' = [hclient EXCEPT ![t] = c]
    /\ IF HasSession(client2streamer, c)
       THEN /\ hstreamer' = [hstreamer EXCEPT
                                ![t] = Lookup(client2streamer, c)]
            /\ hpc' = [hpc EXCEPT ![t] = "vf_return"]
       ELSE /\ hpc' = [hpc EXCEPT ![t] = "vf_check"]
            /\ UNCHANGED hstreamer
    /\ UNCHANGED <<appvars, tvars, pvars, jvars, last_image_response,
                   handler_error, mvars, hgoodbye, hidx, hlen, procvars,
                   sessvars, gens>>

\* if len(client2streamer) >= config.max_concurrent_streams: pick goodbye
VideoFeedCheck(t) ==
    /\ hpc[t] = "vf_check"
    /\ IF AtCapacity(Len(client2streamer), max_concurrent_streams)
       THEN /\ hgoodbye' = [hgoodbye EXCEPT
                   ![t] = client2streamer[GoodbyeIndex(client2streamer)]]
            /\ hpc' = [hpc EXCEPT ![t] = "vf_stop"]
       ELSE /\ hpc' = [hpc EXCEPT ![t] = "vf_create"]
            /\ UNCHANGED hgoodbye
    /\ UNCHANGED <<appvars, tvars, pvars, jvars, last_image_response,
                   handler_error, mvars, hclient, hstreamer, hidx, hlen,
                   procvars, sessvars, gens>>

\* goodbye_stream.stop()
VideoFeedStop(t) ==
    /\ hpc[t] = "vf_stop"
    /\ stop(hgoodbye[t].streamer)
    /\ hpc' = [hpc EXCEPT ![t] = "vf_pop"]
    /\ UNCHANGED <<appvars, tvars, pvars, jvars, last_image_response,
                   handler_error, mvars, hclient, hstreamer, hgoodbye, hidx,
                   hlen, sessvars, gens>>

\* client2streamer.pop(goodbye_client)
\* a key that is no longer in the dict raises KeyError out of the handler
VideoFeedPop(t) ==
    /\ hpc[t] = "vf_pop"
    /\ IF hgoodbye[t].client \in Keys(client2streamer)
       THEN /\ client2streamer' = Pop(client2streamer, hgoodbye[t].client)
            /\ hpc' = [hpc EXCEPT ![t] = "vf_create"]
            /\ UNCHANGED <<handler_error, hclient, hgoodbye>>
       ELSE /\ handler_error' = "KeyError"
            /\ hpc' = [hpc EXCEPT ![t] = "idle"]
            /\ hclient' = [hclient EXCEPT ![t] = None]
            /\ hgoodbye' = [hgoodbye EXCEPT ![t] = NoGoodbye]
            /\ UNCHANGED client2streamer
    /\ UNCHANGED <<appvars, tvars, pvars, jvars, last_image_response,
                   max_concurrent_streams, server, hstreamer, hidx, hlen,
                   procvars, sessvars, gens>>

\* streamer = MJPEGDuoStreamer(...); client2streamer[(host, port)] = streamer
VideoFeedCreate(t) ==
    /\ hpc[t] = "vf_create"
    /\ nsessions' = nsessions + 1
    /\ fastapi_request' = [fastapi_request EXCEPT
                              ![nsessions + 1] = hclient[t]]
    /\ hstreamer' = [hstreamer EXCEPT ![t] = nsessions + 1]
    /\ client2streamer' = SetItem(client2streamer, hclient[t], nsessions + 1)
    /\ hpc' = [hpc EXCEPT ![t] = "vf_return"]
    /\ UNCHANGED <<appvars, tvars, pvars, jvars, last_image_response,
                   handler_error, max_concurrent_streams, server, hclient,
                   hgoodbye, hidx, hlen, procvars, gens, session_last_frame>>

\* return StreamingResponse(streamer.start()): start() is a generator
\* function, the call only creates the frame sequence
VideoFeedReturn(t) ==
    /\ hpc[t] = "vf_return"
    /\ gens' = Append(gens, [streamer |-> hstreamer[t], st |-> "created",
                             p |-> None, q |-> 0, late |-> FALSE])
    /\ hpc' = [hpc EXCEPT ![t] = "idle"]
    /\ hclient' = [hclient EXCEPT ![t] = None]
    /\ hstreamer' = [hstreamer EXCEPT ![t] = None]
    /\ hgoodbye' = [hgoodbye EXCEPT ![t] = NoGoodbye]
    /\ UNCHANGED <<appvars, tvars, pvars, jvars, last_image_response,
                   handler_error, mvars, hidx, hlen, procvars, sessvars>>

(***************************************************************************)
(* MJPEGDuoStreamer.start, first step of the frame sequence: spawn the     *)
(* producer when no handle is set, otherwise the sequence ends at once.    *)
(***************************************************************************)
StartFirst(g) ==
    /\ server = "running"
    /\ g \in 1..Len(gens)
    /\ gens[g].st = "created"
    /\ LET s == gens[g].streamer IN
       IF poll_image_p[s] = None
       THEN \E p \in Pids :
              /\ owner[p] = None
              /\ \A r \in Pids : r < p => owner[r] # None
              /\ owner' = [owner EXCEPT ![p] = s]
              /\ poll_image_p' = [poll_image_p EXCEPT ![s] = p]
              /\ alive' = alive \cup {p}
              /\ gens' = [gens EXCEPT ![g].st = "running", ![g].p = p]
       ELSE /\ gens' = [gens EXCEPT ![g].st = "ended"]
            /\ UNCHANGED <<owner, poll_image_p, alive>>
    /\ UNCHANGED <<appvars, tvars, pvars, jvars, last_image_response,
                   handler_error, mvars, hvars, sessvars, stopped>>

(***************************************************************************)
(* Camera.poll_image leaving its loop (idle timeout): the process ends,    *)
(* the streamer keeps its handle.                                          *)
(***************************************************************************)
ProducerQuit(p) ==
    /\ p \in alive
    /\ alive' = alive \ {p}
    /\ UNCHANGED <<appvars, tvars, pvars, jvars, last_image_response,
                   handler_error, mvars, hvars, sessvars, gens, poll_image_p,
                   owner, stopped>>

(***************************************************************************)
(* shutdown_request: GET /shutdown.                                        *)
(***************************************************************************)
ShutdownRequestBegin(t) ==
    /\ server = "running"
    /\ hpc[t] = "idle"
    /\ hpc' = [hpc EXCEPT ![t] = "sd_loop"]
    /\ hidx' = [hidx EXCEPT ![t] = 1]
    /\ hlen' = [hlen EXCEPT ![t] = Len(client2streamer)]
    /\ UNCHANGED <<appvars, tvars, pvars, jvars, last_image_response,
                   handler_error, mvars, hclient, hstreamer, hgoodbye,
                   procvars, sessvars, gens>>

\* for client, streamer in client2streamer.items(): streamer.stop()
ShutdownRequestStop(t) ==
    /\ hpc[t] = "sd_loop"
    /\ Len(client2streamer) = hlen[t]
    /\ hidx[t] <= Len(client2streamer)
    /\ stop(client2streamer[hidx[t]].streamer)
    /\ hidx' = [hidx EXCEPT ![t] = hidx[t] + 1]
    /\ UNCHANGED <<appvars, tvars, pvars, jvars, last_image_response,
                   handler_error, mvars, hpc, hclient, hstreamer, hgoodbye,
                   hlen, sessvars, gens>>

\* the iterator of items() finds the dict's size changed since the loop
\* began: RuntimeError leaves the handler, the server keeps running
ShutdownRequestRaise(t) ==
    /\ hpc[t] = "sd_loop"
    /\ Len(client2streamer) # hlen[t]
    /\ handler_error' = "RuntimeError"
    /\ hpc' = [hpc EXCEPT ![t] = "idle"]
    /\ hidx' = [hidx EXCEPT ![t] = 0]
    /\ hlen' = [hlen EXCEPT ![t] = 0]
    /\ UNCHANGED <<appvars, tvars, pvars, jvars, last_image_response, mvars,
                   hclient, hstreamer, hgoodbye, procvars, sessvars, gens>>

\* time.sleep(0.1); sys.exit(0)
ShutdownRequestExit(t) ==
    /\ hpc[t] = "sd_loop"
    /\ Len(client2streamer) = hlen[t]
    /\ hidx[t] > Len(client2streamer)
    /\ server' = "exited"
    /\ hpc' = [hpc EXCEPT ![t] = "idle"]
    /\ hidx' = [hidx EXCEPT ![t] = 0]
    /\ hlen' = [hlen EXCEPT ![t] = 0]
    /\ UNCHANGED <<appvars, tvars, pvars, jvars, last_image_response,
                   handler_error, max_concurrent_streams, client2streamer,
                   hclient, hstreamer, hgoodbye, procvars, sessvars, gens>>

(***************************************************************************)
(* shutdown: the application's shutdown event.  client2streamer is         *)
(* assigned in the body without a nonlocal declaration, so it is a local   *)
(* name and the for statement raises UnboundLocalError before any stop().  *)
(***************************************************************************)
shutdown ==
    /\ server = "running"
    /\ Quiescent
    /\ server' = "shutdown_failed"
    /\ UNCHANGED <<appvars, tvars, pvars, jvars, last_image_response,
                   handler_error, max_concurrent_streams, client2streamer,
                   hvars, procvars, sessvars, gens>>

(***************************************************************************)
(* The producer process spawned by start(): Camera._write_data puts a      *)
(* frame into the sequence's _q with put_nowait; a full queue drops it.    *)
(***************************************************************************)
ProducerPut(p) ==
    /\ server = "running"
    /\ p \in alive
    /\ \E g \in 1..Len(gens) :
         /\ gens[g].p = p
         /\ gens[g].q < QueueSize
         /\ gens' = [gens EXCEPT ![g].q = gens[g].q + 1]
    /\ UNCHANGED <<appvars, tvars, pvars, jvars, last_image_response,
                   handler_error, mvars, hvars, sessvars, procvars>>

(***************************************************************************)
(* MJPEGDuoStreamer.start, an iteration of the loop that takes a frame     *)
(* from _q: the frame becomes _last_frame and is yielded.  With _q empty   *)
(* the iteration changes nothing: it yields _last_frame again, or sleeps   *)
(* when there is none.                                                     *)
(***************************************************************************)
StartLoop(g) ==
    /\ server = "running"
    /\ g \in 1..Len(gens)
    /\ gens[g].st = "running"
    /\ gens[g].q > 0
    /\ gens' = [gens EXCEPT ![g].q = gens[g].q - 1,
                            ![g].late = @ \/ gens[g].streamer \in stopped]
    /\ session_last_frame' =
           [session_last_frame EXCEPT ![gens[g].streamer] = TRUE]
    /\ UNCHANGED <<appvars, tvars, pvars, jvars, last_image_response,
                   handler_error, mvars, hvars, procvars, nsessions,
                   fastapi_request>>

\* MJPEGDuoStreamer.start, an iteration of the loop with _q empty and a
\* last frame: lines 206-219, _data = self._last_frame is rendered and
\* yielded again.  Nothing in the loop looks at what stop() did.
StartReemit(g) ==
    /\ server = "running"
    /\ g \in 1..Len(gens)
    /\ gens[g].st = "running"
    /\ gens[g].q = 0
    /\ session_last_frame[gens[g].streamer]
    /\ gens' = [gens EXCEPT
                   ![g].late = @ \/ gens[g].streamer \in stopped]
    /\ UNCHANGED <<appvars, tvars, pvars, jvars, last_image_response,
                   handler_error, mvars, hvars, procvars, sessvars>>

(***************************************************************************)
(* last_image: GET /last_image.                                            *)
(***************************************************************************)
\* the request arrives
LastImageBegin(t) ==
    /\ server = "running"
    /\ hpc[t] = "idle"
    /\ hpc' = [hpc EXCEPT ![t] = "li_key"]
    /\ last_image_response' = "none"
    /\ UNCHANGED <<appvars, tvars, pvars, jvars, handler_error, mvars,
                   hclient, hstreamer, hgoodbye, hidx, hlen, procvars,
                   sessvars, gens>>

\* last_client = list(client2streamer.keys())[-1]; IndexError gives 404
LastImageKey(t) ==
    /\ hpc[t] = "li_key"
    /\ IF client2streamer = <<>>
       THEN /\ last_image_response' = "404"
            /\ hpc' = [hpc EXCEPT ![t] = "idle"]
            /\ UNCHANGED hclient
       ELSE /\ hclient' = [hclient EXCEPT
                   ![t] = client2streamer[Len(client2streamer)].client]
            /\ hpc' = [hpc EXCEPT ![t] = "li_get"]
            /\ UNCHANGED last_image_response
    /\ UNCHANGED <<appvars, tvars, pvars, jvars, handler_error, mvars,
                   hstreamer, hgoodbye, hidx, hlen, procvars, sessvars, gens>>

\* get_last_jpeg: the JPEG of _last_frame, or None when there is none
get_last_jpeg(s) == IF session_last_frame[s] THEN "jpeg" ELSE "empty"

\* last_stream = client2streamer[last_client], KeyError gives 404;
\* return Response(content=last_stream.get_last_jpeg())
LastImageGet(t) ==
    /\ hpc[t] = "li_get"
    /\ last_image_response' =
           IF hclient[t] \in Keys(client2streamer)
           THEN get_last_jpeg(Lookup(client2streamer, hclient[t]))
           ELSE "404"
    /\ hpc' = [hpc EXCEPT ![t] = "idle"]
    /\ hclient' = [hclient EXCEPT ![t] = None]
    /\ UNCHANGED <<appvars, tvars, pvars, jvars, handler_error, mvars,
                   hstreamer, hgoodbye, hidx, hlen, procvars, sessvars, gens>>

(***************************************************************************)
(* The producer -> Frame Channel -> consumer path.                         *)
(***************************************************************************)

\* a full queue that still accepts the item
FullUnbounded(queue) == FALSE

\* queue.Full: put_nowait on a queue holding QueueSize items
Full(queue) == Len(queue) >= QueueSize

(***************************************************************************)
(* Camera._write_data.  On a queue: put_nowait; a put rejected by a full   *)
(* queue is dropped, an accepted one records the time.  On the encoder's   *)
(* stdin: write, which records no time.                                    *)
(***************************************************************************)
write_data(data) ==
    IF data = NoFrame
    THEN UNCHANGED <<q, write_successfull_timestamp, last_put>>
    ELSE /\ last_put' = data
         /\ IF sink = "pipe" \/ Full(q)
            THEN UNCHANGED <<q, write_successfull_timestamp>>
            ELSE /\ q' = Append(q, data)
                 /\ write_successfull_timestamp' = now

\* what _write_data raises: BrokenPipeError on the stdin of an encoder that
\* has exited, nothing otherwise
WriteRaises ==
    IF sink = "pipe" /\ ffmpeg = "exited" THEN "BrokenPipeError" ELSE "none"

(***************************************************************************)
(* TestCamera._poll_once                                                   *)
(***************************************************************************)
TestPollOnce ==
    /\ variant = "test"
    /\ ppc = "poll"
    /\ IF WriteRaises = "none"
       THEN write_data(Frame(0, 0))
       ELSE UNCHANGED <<q, write_successfull_timestamp, last_put>>
    /\ poll_exc' = WriteRaises
    /\ slept' = (WriteRaises = "none")
    /\ ppc' = "handled"
    /\ UNCHANGED <<appvars, tvars, svars, jvars, sinkvars, detvars, variant,
                   now, dvars, last_frame_number, last_use_secondary,
                   use_secondary, read_failed, logged, consvars>>

(***************************************************************************)
(* LimaCamera._poll_once: any device read may raise; nothing is caught     *)
(* inside, so the exception leaves _poll_once before the sleep.            *)
(***************************************************************************)
LimaPollOnce(fail) ==
    /\ variant = "lima"
    /\ ppc = "poll"
    /\ LET frame_number == video_last_image_counter[0] IN
       IF fail = "count0"
       THEN /\ poll_exc' = "Exception"
            /\ read_failed' = "attr"
            /\ UNCHANGED <<q, write_successfull_timestamp, last_put,
                           last_frame_number>>
       ELSE IF last_frame_number # frame_number
       THEN IF fail = "image"
            THEN /\ poll_exc' = "Exception"
                 /\ read_failed' = "image"
                 /\ UNCHANGED <<q, write_successfull_timestamp, last_put,
                                last_frame_number>>
            ELSE IF WriteRaises # "none"
            THEN /\ poll_exc' = WriteRaises
                 /\ read_failed' = "none"
                 /\ UNCHANGED <<q, write_successfull_timestamp, last_put,
                                last_frame_number>>
            ELSE /\ write_data(Frame(0, frame_number))
                 /\ last_frame_number' = frame_number
                 /\ poll_exc' = "none"
                 /\ read_failed' = "none"
       ELSE /\ poll_exc' = "none"
            /\ read_failed' = "none"
            /\ UNCHANGED <<q, write_successfull_timestamp, last_put,
                           last_frame_number>>
    \* time.sleep(self._sleep_time / 2) is the last statement
    /\ slept' = (poll_exc' = "none")
    /\ ppc' = "handled"
    /\ UNCHANGED <<appvars, tvars, svars, jvars, sinkvars, detvars, variant,
                   now, dvars, last_use_secondary, use_secondary, logged,
                   consvars>>

(***************************************************************************)
(* LimaCameraDuo._poll_once                                                *)
(***************************************************************************)
\* a construction that keeps a secondary device whose connection failed
DuoConnectKeepDevice(ok0, has_uri1, ok1) ==
    /\ variant = "duo"
    /\ ppc = "init"
    /\ connected' = [connected EXCEPT ![0] = ok0,
                                      ![1] = ok0 /\ has_uri1 /\ ok1]
    /\ IF ~ok0
       THEN /\ ppc' = "exit(-1)"
            /\ UNCHANGED <<secondary, cpc>>
       ELSE /\ secondary' = has_uri1
            /\ ppc' = "poll"
            /\ cpc' = "loop"
    /\ UNCHANGED <<appvars, tvars, svars, jvars, sinkvars, variant, now, q,
                   video_live, video_last_image_counter, poll_exc,
                   write_successfull_timestamp, last_frame_number,
                   last_use_secondary, use_secondary, read_failed, last_put,
                   detvars, cycvars, last_frame, emitted, emitted_n,
                   nchunks>>

\* LimaCameraDuo.__init__, lines 201-214, followed by the spawn of the
\* producer; ok0, ok1: the _connect of that source succeeds; has_uri1: the
\* secondary URI is not empty.  A failed primary: sys.exit(-1), no adapter.
\* A failed secondary: except: pass, the device stays None.
DuoConnect(ok0, has_uri1, ok1) ==
    /\ variant = "duo"
    /\ ppc = "init"
    /\ connected' = [connected EXCEPT ![0] = ok0,
                                      ![1] = ok0 /\ has_uri1 /\ ok1]
    /\ IF ~ok0
       THEN /\ ppc' = "exit(-1)"
            /\ UNCHANGED <<secondary, cpc>>
       ELSE /\ secondary' = (has_uri1 /\ ok1)
            /\ ppc' = "poll"
            /\ cpc' = "loop"
    /\ UNCHANGED <<appvars, tvars, svars, jvars, sinkvars, variant, now, q,
                   video_live, video_last_image_counter, poll_exc,
                   write_successfull_timestamp, last_frame_number,
                   last_use_secondary, use_secondary, read_failed, last_put,
                   detvars, cycvars, last_frame, emitted, emitted_n,
                   nchunks>>

\* selecting the secondary whenever it is live
SelectSecondaryFirst(live, sec) ==
    IF sec /\ live[1] THEN 1
    ELSE IF live[0] THEN 0
    ELSE -1

\* the selection of lines 266-271 when no read raises:
\* 0 primary, 1 secondary, -1 none
Select(live, sec) ==
    IF live[0] THEN 0
    ELSE IF sec /\ live[1] THEN 1
    ELSE -1

\* a transition log in every cycle
TransitionLogAlways(last, us) ==
    IF us = 1 THEN "secondary"
    ELSE IF us = 0 THEN "primary"
    ELSE "pausing"

\* lines 275-280 and 293-294: the transition log of a cycle that selected
\* us when the selection remembered in _last_use_secondary is last
TransitionLog(last, us) ==
    IF us # -1
    THEN IF last # us
         THEN IF us = 1 THEN "secondary" ELSE "primary"
         ELSE "none"
    ELSE IF last # -1 THEN "pausing" ELSE "none"

\* the read that raises, fail, is one that this cycle performs
ReadRaises(fail, live, sec) ==
    \/ fail = "live0"
    \/ fail = "count0" /\ live[0]
    \/ fail = "live1" /\ ~live[0] /\ sec
    \/ fail = "count1" /\ ~live[0] /\ sec /\ live[1]

DuoPollOnce(fail) ==
    /\ variant = "duo"
    /\ ppc = "poll"
    /\ IF ReadRaises(fail, video_live, secondary)
       THEN \* except: pass -- use_secondary is still None
            /\ use_secondary' = -1
            /\ logged' = "none"
            /\ read_failed' = "attr"
            /\ fetched' = FALSE
            /\ UNCHANGED <<q, write_successfull_timestamp, last_put,
                           last_frame_number, last_use_secondary, observed>>
       ELSE LET us == Select(video_live, secondary)
                frame_number == IF us = -1 THEN -1
                                ELSE video_last_image_counter[us]
            IN
            /\ use_secondary' = us
            /\ logged' = TransitionLog(last_use_secondary, us)
            /\ last_use_secondary' = us
            /\ IF us # -1 /\ last_frame_number # frame_number
               THEN /\ fetched' = TRUE
                    /\ IF fail \in {"image", "short"}
                       THEN \* _get_image returned None (the read raised,
                            \* or struct.unpack did on a buffer shorter
                            \* than the header): nothing written
                            /\ read_failed' = fail
                            /\ UNCHANGED <<q, write_successfull_timestamp,
                                           last_put, last_frame_number,
                                           observed>>
                       ELSE \* width and height of the header are unpacked
                            \* and not looked at ("dims": one of them is
                            \* not positive)
                            /\ write_data(Frame(us, frame_number))
                            /\ last_frame_number' = frame_number
                            /\ observed' = [observed EXCEPT
                                                ![us] = frame_number]
                            /\ read_failed' = IF fail = "dims" THEN "dims"
                                              ELSE "none"
               ELSE /\ read_failed' = "none"
                    /\ fetched' = FALSE
                    /\ UNCHANGED <<q, write_successfull_timestamp, last_put,
                                   last_frame_number, observed>>
    \* lines 298-301: every path ends in a time.sleep
    /\ slept' = TRUE
    /\ poll_exc' = "none"
    /\ ppc' = "handled"
    /\ UNCHANGED <<appvars, tvars, svars, jvars, sinkvars, variant, now,
                   dvars, consvars>>

\* a polling loop that any exception of _poll_once ends
PollImageHandleEscape ==
    /\ ppc = "handled"
    /\ IF poll_exc # "none"
       THEN ppc' = "exited"
       ELSE IF now - write_successfull_timestamp > FULL_QUEUE_TIMEOUT
            THEN ppc' = "done"
            ELSE ppc' = "poll"
    \* what the cycle that ends here read and logged is forgotten
    /\ logged' = "none"
    /\ read_failed' = "none"
    /\ fetched' = FALSE
    /\ UNCHANGED <<appvars, tvars, svars, jvars, sinkvars, observed, slept,
                   variant, now, q, dvars, poll_exc,
                   write_successfull_timestamp, last_frame_number,
                   last_use_secondary, use_secondary, last_put, consvars>>

(***************************************************************************)
(* Camera.poll_image, after _poll_once: BrokenPipeError ends the process   *)
(* (sys.exit(0)); any other exception is logged and the loop continues;    *)
(* otherwise the idle test may break the loop.                             *)
(***************************************************************************)
PollImageHandle ==
    /\ ppc = "handled"
    /\ IF poll_exc = "BrokenPipeError"
       THEN ppc' = "exited"
       ELSE IF poll_exc # "none"
       THEN ppc' = "poll"
       ELSE IF now - write_successfull_timestamp > FULL_QUEUE_TIMEOUT
            THEN ppc' = "done"
            ELSE ppc' = "poll"
    \* what the cycle that ends here read and logged is forgotten
    /\ logged' = "none"
    /\ read_failed' = "none"
    /\ fetched' = FALSE
    /\ UNCHANGED <<appvars, tvars, svars, jvars, sinkvars, observed, slept,
                   variant, now, q, dvars, poll_exc,
                   write_successfull_timestamp, last_frame_number,
                   last_use_secondary, use_secondary, last_put, consvars>>

(***************************************************************************)
(* MJPEGCamera.poll_image: accumulate the pushed stream, then              *)
(* output.put(buffer), a blocking put.                                     *)
(***************************************************************************)
MjpegRead ==
    /\ variant = "mjpeg"
    /\ ppc = "mj_read"
    /\ last_frame_number < MaxFrame
    /\ last_frame_number' = last_frame_number + 1
    /\ ppc' = "mj_put"
    /\ UNCHANGED <<appvars, tvars, svars, jvars, sinkvars, detvars, cycvars,
                   variant, now, q, dvars, poll_exc,
                   write_successfull_timestamp, last_use_secondary,
                   use_secondary, read_failed, last_put, consvars>>

MjpegPut ==
    /\ variant = "mjpeg"
    /\ ppc = "mj_put"
    /\ ~Full(q)
    /\ q' = Append(q, Frame(0, last_frame_number))
    /\ last_put' = Frame(0, last_frame_number)
    /\ ppc' = "mj_read"
    /\ UNCHANGED <<appvars, tvars, svars, jvars, sinkvars, detvars, cycvars,
                   variant, now, dvars, poll_exc, write_successfull_timestamp,
                   last_frame_number, last_use_secondary, use_secondary,
                   read_failed, consvars>>

(***************************************************************************)
(* The devices, the encoder and the clock.                                 *)
(***************************************************************************)
\* the ffmpeg subprocess ends: FFMPGStreamer.stop kills it before it kills
\* the producer, or it exits on its own
FfmpegExit ==
    /\ sink = "pipe"
    /\ ffmpeg = "running"
    /\ ffmpeg' = "exited"
    /\ UNCHANGED <<appvars, tvars, svars, jvars, sink, ffmpeg_streamer,
                   variant, now, q, dvars, prodvars, consvars>>

DeviceFrame(i) ==
    /\ variant \in {"lima", "duo"}
    /\ i = 1 => variant = "duo" /\ secondary
    /\ video_last_image_counter[i] < MaxFrame
    /\ video_last_image_counter' =
           [video_last_image_counter EXCEPT ![i] = @ + 1]
    /\ UNCHANGED <<appvars, tvars, svars, jvars, sinkvars, variant, now, q,
                   video_live, secondary, connected, prodvars, consvars>>

DeviceLive(i) ==
    /\ variant = "duo"
    /\ video_live' = [video_live EXCEPT ![i] = ~@]
    /\ UNCHANGED <<appvars, tvars, svars, jvars, sinkvars, variant, now, q,
                   video_last_image_counter, secondary, connected, prodvars,
                   consvars>>

Tick ==
    /\ ppc # "init"
    /\ now + TickStep <= MaxTime
    /\ now' = now + TickStep
    /\ UNCHANGED <<appvars, tvars, svars, jvars, sinkvars, variant, q, dvars,
                   prodvars, consvars>>

(***************************************************************************)
(* The consumers.                                                          *)
(***************************************************************************)
\* a consumer that keeps the first frame it got as its _last_frame
NextLastFrameKeep(data, last) == IF last = NoFrame THEN data ELSE last

\* self._last_frame = _data: the frame just taken becomes the last frame
NextLastFrame(data, last) == data

\* yield: the chunk of frame data goes to the client
Emit(data) ==
    /\ emitted' = data
    /\ emitted_n' = [emitted_n EXCEPT ![data.src] = data.n]
    /\ nchunks' = (nchunks + 1) % 2

\* MJPEGStreamer.start, line 49: _last_frame = _q.get(), a blocking get
StreamerFirstGet ==
    /\ variant # "duo"
    /\ cpc = "first"
    /\ q # <<>>
    /\ last_frame' = Head(q)
    /\ q' = Tail(q)
    /\ cpc' = "loop"
    /\ UNCHANGED <<appvars, tvars, svars, jvars, sinkvars, variant, now,
                   dvars, prodvars, emitted, emitted_n, nchunks>>

\* MJPEGStreamer.start, one iteration of the loop
StreamerLoop ==
    /\ variant # "duo"
    /\ cpc = "loop"
    /\ IF q # <<>>
       THEN /\ last_frame' = NextLastFrame(Head(q), last_frame)
            /\ q' = Tail(q)
       ELSE UNCHANGED <<last_frame, q>>
    /\ Emit(last_frame')
    /\ UNCHANGED <<appvars, tvars, svars, jvars, sinkvars, variant, now,
                   dvars, prodvars, cpc>>

\* MJPEGDuoStreamer.start, one iteration of the loop: get_jpeg gives a JPEG
\* for every frame of a source and None for None
DuoStreamerLoop ==
    /\ variant = "duo"
    /\ cpc = "loop"
    /\ LET data == IF q # <<>> THEN Head(q) ELSE last_frame IN
       /\ q' = IF q # <<>> THEN Tail(q) ELSE q
       /\ IF data # NoFrame
          THEN /\ last_frame' = NextLastFrame(data, last_frame)
               /\ Emit(data)
          ELSE UNCHANGED <<last_frame, emitted, emitted_n, nchunks>>
    /\ UNCHANGED <<appvars, tvars, svars, jvars, sinkvars, variant, now,
                   dvars, prodvars, cpc>>

(***************************************************************************)
(* LimaCameraDuo.get_jpeg.  A buffer is modelled by its length, an image   *)
(* by its mode, its size and the transforms applied to it.                 *)
(***************************************************************************)
\* LimaCameraDuo.VIDEO_FORMATS and VIDEO_BYTES
VideoModes == {"RGB24", "Y8"}
VIDEO_FORMATS(m) == IF m = "RGB24" THEN "RGB" ELSE "L"
VIDEO_BYTES(m) == IF m = "RGB24" THEN 3 ELSE 1

\* lines 315-321 with the two indices exchanged
CameraIndexSwapped(len, data_size_0, data_size_1) ==
    IF len = data_size_0 THEN 1
    ELSE IF len = data_size_1 THEN 0
    ELSE -1

\* lines 315-321: the source a buffer of this length is attributed to,
\* -1 for a corrupted frame
CameraIndex(len, data_size_0, data_size_1) ==
    IF len = data_size_0 THEN 0
    ELSE IF len = data_size_1 THEN 1
    ELSE -1

\* lines 333-343: resize
Resized(img, target, skip) ==
    IF ~skip /\ target[1] > 0 /\ target[2] > 0
    THEN [img EXCEPT !.size = target, !.ops = Append(@, "resize")]
    ELSE img

\* lines 345-356: center crop
Cropped(img, target, skip) ==
    IF ~skip /\ target[1] > 0 /\ target[2] > 0
    THEN [img EXCEPT !.size = target, !.ops = Append(@, "crop")]
    ELSE img

\* lines 358-368: rotation; 90 and 270 exchange width and height
Rotated(img, deg) ==
    IF deg \in {90, 270}
    THEN [img EXCEPT !.size = <<@[2], @[1]>>, !.ops = Append(@, "rotate")]
    ELSE IF deg = 180
    THEN [img EXCEPT !.ops = Append(@, "rotate")]
    ELSE img

\* lines 370-384: flips
Flipped(img, flip) ==
    LET h == IF flip[1] THEN [img EXCEPT !.ops = Append(@, "flip_h")]
             ELSE img
    IN IF flip[2] THEN [h EXCEPT !.ops = Append(@, "flip_v")] ELSE h

\* get_jpeg with the crop applied before the resize
get_jpegCropFirst(len, skip) ==
    IF len = DataNone THEN NoneResult
    ELSE IF ~(video_modes[0] \in VideoModes /\ video_modes[1] \in VideoModes)
    THEN NoneResult   \* KeyError in VIDEO_BYTES
    ELSE
    LET data_size_0 == widths[0] * heights[0] * VIDEO_BYTES(video_modes[0])
        data_size_1 == widths[1] * heights[1] * VIDEO_BYTES(video_modes[1])
        camera_index == CameraIndex(len, data_size_0, data_size_1)
    IN
    IF camera_index = -1 THEN NoneResult
    ELSE IF widths[camera_index] <= 0 \/ heights[camera_index] <= 0
    THEN RaisedResult \* Image.frombytes: ValueError
    ELSE
    LET native == <<widths[camera_index], heights[camera_index]>>
        image == [camera_index |-> camera_index, jpeg |-> TRUE,
                  raised |-> FALSE,
                  mode |-> VIDEO_FORMATS(video_modes[camera_index]),
                  native |-> native, size |-> native, ops |-> <<>>]
    IN Flipped(Rotated(Resized(Cropped(image, images_crop[camera_index],
                                       skip),
                               images_resize[camera_index], skip),
                       images_rotate[camera_index]),
               images_flip[camera_index])

\* lines 303-389: get_jpeg; skip is dont_resize
get_jpeg(len, skip) ==
    IF len = DataNone THEN NoneResult
    ELSE IF ~(video_modes[0] \in VideoModes /\ video_modes[1] \in VideoModes)
    THEN NoneResult   \* KeyError in VIDEO_BYTES
    ELSE
    LET data_size_0 == widths[0] * heights[0] * VIDEO_BYTES(video_modes[0])
        data_size_1 == widths[1] * heights[1] * VIDEO_BYTES(video_modes[1])
        camera_index == CameraIndex(len, data_size_0, data_size_1)
    IN
    IF camera_index = -1 THEN NoneResult
    ELSE IF widths[camera_index] <= 0 \/ heights[camera_index] <= 0
    THEN RaisedResult \* Image.frombytes: ValueError
    ELSE
    LET native == <<widths[camera_index], heights[camera_index]>>
        image == [camera_index |-> camera_index, jpeg |-> TRUE,
                  raised |-> FALSE,
                  mode |-> VIDEO_FORMATS(video_modes[camera_index]),
                  native |-> native, size |-> native, ops |-> <<>>]
    IN Flipped(Rotated(Cropped(Resized(image, images_resize[camera_index],
                                       skip),
                               images_crop[camera_index], skip),
                       images_rotate[camera_index]),
               images_flip[camera_index])

(***************************************************************************)
(* The Tango device controller (tango/MJPEGDuoStreamer.py): it forks the   *)
(* streaming server process and shuts it down in two phases.               *)
(***************************************************************************)
\* the server processes forked so far
Started == 1..nstarts

\* test_socket: the port can be bound when no forked server listens on it
PortFree == \A p \in Started : uvicorn[p] # "alive"

\* a clearing of the record that keeps the stream URL
ClearRecordKeepURL ==
    /\ streamerProcess' = None
    /\ startedHost' = ""
    /\ startedPort' = ""
    /\ UNCHANGED videoURL

\* the device's record of the server as init_device leaves it
ClearRecord ==
    /\ streamerProcess' = None
    /\ videoURL' = ""
    /\ startedHost' = ""
    /\ startedPort' = ""

\* startStreaming; bound: what test_socket finds when the port is free of
\* our servers (another program may hold it); up: is_alive() after the fork
startStreaming(bound, up) ==
    /\ tpc = "idle"
    /\ IF streamerProcess # None
       THEN /\ tresult' = "Already running"
            /\ UNCHANGED <<streamerProcess, videoURL, startedHost,
                           startedPort, uvicorn, nstarts>>
       ELSE IF ~(bound /\ PortFree)
       THEN /\ tresult' = "Unable to bind"
            /\ UNCHANGED <<streamerProcess, videoURL, startedHost,
                           startedPort, uvicorn, nstarts>>
       ELSE /\ nstarts < MaxStarts
            /\ nstarts' = nstarts + 1
            /\ IF up
               THEN /\ uvicorn' = [uvicorn EXCEPT ![nstarts + 1] = "alive"]
                    /\ streamerProcess' = nstarts + 1
                    /\ videoURL' = "0.0.0.0:8000/ui/"
                    /\ startedHost' = "0.0.0.0"
                    /\ startedPort' = "8000"
                    /\ tresult' = "Streaming"
               ELSE \* SIGTERM and SIGKILL to the pid, then forget it
                    /\ uvicorn' = [uvicorn EXCEPT ![nstarts + 1] = "dead"]
                    /\ ClearRecord
                    /\ tresult' = "Something went wrong"
    /\ UNCHANGED <<appvars, svars, pvars, jvars, tpc, sd_trace, get_outcome,
                   kill_raised>>

\* the server process ends on its own
ServerDies(p) ==
    /\ p \in Started
    /\ uvicorn[p] = "alive"
    /\ uvicorn' = [uvicorn EXCEPT ![p] = "dead"]
    /\ UNCHANGED <<appvars, svars, pvars, jvars, streamerProcess, videoURL,
                   startedHost, startedPort, nstarts, tpc, tresult, sd_trace,
                   get_outcome, kill_raised>>

\* shutdownStream with no process recorded
ShutdownStreamNothing ==
    /\ tpc = "idle"
    /\ streamerProcess = None
    /\ tresult' = "Nothing to shutdown"
    /\ UNCHANGED <<appvars, svars, pvars, jvars, streamerProcess, videoURL,
                   startedHost, startedPort, uvicorn, nstarts, tpc, sd_trace,
                   get_outcome, kill_raised>>

\* shutdownStream with a process recorded: it calls shutdown_uvicorn_server
ShutdownStreamBegin ==
    /\ tpc = "idle"
    /\ streamerProcess # None
    /\ tpc' = "sd_get"
    /\ sd_trace' = <<>>
    /\ get_outcome' = "none"
    /\ kill_raised' = "none"
    /\ tresult' = "Unknown result"
    /\ UNCHANGED <<appvars, svars, pvars, jvars, streamerProcess, videoURL,
                   startedHost, startedPort, uvicorn, nstarts>>

\* a graceful phase whose failure ends shutdown_uvicorn_server
ShutdownGetReturnOnFailure(outcome) ==
    /\ tpc = "sd_get"
    /\ outcome = "failed" <=> uvicorn[streamerProcess] = "dead"
    /\ sd_trace' = Append(sd_trace, "GET")
    /\ get_outcome' = outcome
    /\ tpc' = IF outcome = "ok" THEN "sd_term" ELSE "sd_clear"
    /\ UNCHANGED <<appvars, svars, pvars, jvars, streamerProcess, videoURL,
                   startedHost, startedPort, uvicorn, nstarts, tresult,
                   kill_raised>>

\* shutdown_uvicorn_server, graceful phase: requests.get(.../shutdown,
\* timeout=0.1) returns ("ok"), finds no server ("failed") or times out
\* ("timeout"); except Exception: pass; finally: sleep.  A server that got
\* the request may have exited by the end of the sleep.
ShutdownGet(outcome) ==
    /\ tpc = "sd_get"
    /\ outcome = "failed" <=> uvicorn[streamerProcess] = "dead"
    /\ sd_trace' = Append(sd_trace, "GET")
    /\ get_outcome' = outcome
    /\ \E exited \in BOOLEAN :
         uvicorn' = IF exited /\ outcome # "failed"
                    THEN [uvicorn EXCEPT ![streamerProcess] = "dead"]
                    ELSE uvicorn
    /\ tpc' = "sd_term"
    /\ UNCHANGED <<appvars, svars, pvars, jvars, streamerProcess, videoURL,
                   startedHost, startedPort, nstarts, tresult, kill_raised>>

\* forced phase, os.kill(p_pid, signal.SIGTERM): when it raises, except:
\* pass ends the function
ShutdownTerm(raises) ==
    /\ tpc = "sd_term"
    /\ sd_trace' = Append(sd_trace, "SIGTERM")
    /\ IF raises
       THEN /\ kill_raised' = "SIGTERM"
            /\ tpc' = "sd_clear"
            /\ UNCHANGED uvicorn
       ELSE /\ tpc' = "sd_kill"
            /\ \E exited \in BOOLEAN :
                 uvicorn' = IF exited
                            THEN [uvicorn EXCEPT ![streamerProcess] = "dead"]
                            ELSE uvicorn
            /\ UNCHANGED kill_raised
    /\ UNCHANGED <<appvars, svars, pvars, jvars, streamerProcess, videoURL,
                   startedHost, startedPort, nstarts, tresult, get_outcome>>

\* forced phase, sleep then os.kill(p_pid, signal.SIGKILL)
ShutdownKill(raises) ==
    /\ tpc = "sd_kill"
    /\ sd_trace' = Append(sd_trace, "SIGKILL")
    /\ IF raises
       THEN /\ kill_raised' = "SIGKILL"
            /\ UNCHANGED uvicorn
       ELSE /\ uvicorn' = [uvicorn EXCEPT ![streamerProcess] = "dead"]
            /\ UNCHANGED kill_raised
    /\ tpc' = "sd_clear"
    /\ UNCHANGED <<appvars, svars, pvars, jvars, streamerProcess, videoURL,
                   startedHost, startedPort, nstarts, tresult, get_outcome>>

\* shutdownStream after shutdown_uvicorn_server returned
ShutdownStreamClear ==
    /\ tpc = "sd_clear"
    /\ ClearRecord
    /\ tpc' = "idle"
    /\ UNCHANGED <<appvars, svars, pvars, jvars, uvicorn, nstarts, tresult,
                   sd_trace, get_outcome, kill_raised>>

(***************************************************************************)
(* Specification of the session manager: requests are served one after     *)
(* another (a handler starts once the previous handler has returned and     *)
(* its response has begun to stream); producers run beside them.            *)
(***************************************************************************)
SInit ==
    /\ client2streamer = <<>>
    /\ server = "running"
    /\ hpc = [t \in Threads |-> "idle"]
    /\ hclient = [t \in Threads |-> None]
    /\ hstreamer = [t \in Threads |-> None]
    /\ hgoodbye = [t \in Threads |-> NoGoodbye]
    /\ hidx = [t \in Threads |-> 0]
    /\ hlen = [t \in Threads |-> 0]
    /\ handler_error = "none"
    /\ nsessions = 0
    /\ fastapi_request = [s \in Sids |-> None]
    /\ session_last_frame = [s \in Sids |-> FALSE]
    /\ last_image_response = "none"
    /\ poll_image_p = [s \in Sids |-> None]
    /\ owner = [p \in Pids |-> None]
    /\ alive = {}
    /\ gens = <<>>
    /\ stopped = {}

Init ==
    /\ max_concurrent_streams \in 1..MaxCap
    /\ SInit
    /\ PIdle
    /\ JIdle
    /\ TInit
    /\ AInit

Next ==
    \/ \E t \in Threads, c \in Clients :
          Quiescent /\ NextClient(c) /\ VideoFeedLookup(t, c)
    \/ \E t \in Threads : VideoFeedCheck(t)
    \/ \E t \in Threads : VideoFeedStop(t)
    \/ \E t \in Threads : VideoFeedPop(t)
    \/ \E t \in Threads : VideoFeedCreate(t)
    \/ \E t \in Threads : VideoFeedReturn(t)
    \/ \E g \in Gids : StartFirst(g)
    \/ \E p \in Pids : ProducerQuit(p)
    \/ \E p \in Pids : ProducerPut(p)
    \/ \E g \in Gids : StartLoop(g)
    \/ \E g \in Gids : StartReemit(g)
    \/ \E t \in Threads : Quiescent /\ LastImageBegin(t)
    \/ \E t \in Threads : LastImageKey(t)
    \/ \E t \in Threads : LastImageGet(t)
    \/ \E t \in Threads : Quiescent /\ ShutdownRequestBegin(t)
    \/ \E t \in Threads : ShutdownRequestStop(t)
    \/ \E t \in Threads : ShutdownRequestExit(t)
    \/ shutdown

Spec == Init /\ [][Next]_vars

(***************************************************************************)
(* Specification of the session manager with its handlers running          *)
(* concurrently: video_feed and shutdown_request are sync handlers, which   *)
(* run on worker threads, and nothing in server.py serialises them.         *)
(***************************************************************************)
NextConc ==
    \/ \E t \in Threads, c \in Clients :
          /\ Requests < ConcRequests
          /\ NextClient(c)
          /\ VideoFeedLookup(t, c)
    \/ \E t \in Threads : VideoFeedCheck(t)
    \/ \E t \in Threads : VideoFeedStop(t)
    \/ \E t \in Threads : VideoFeedPop(t)
    \/ \E t \in Threads : VideoFeedCreate(t)
    \/ \E t \in Threads : VideoFeedReturn(t)
    \/ \E g \in Gids : StartFirst(g)
    \/ \E t \in Threads : LastImageBegin(t)
    \/ \E t \in Threads : LastImageKey(t)
    \/ \E t \in Threads : LastImageGet(t)
    \/ \E t \in Threads : ShutdownRequestBegin(t)
    \/ \E t \in Threads : ShutdownRequestStop(t)
    \/ \E t \in Threads : ShutdownRequestRaise(t)
    \/ \E t \in Threads : ShutdownRequestExit(t)
    \/ shutdown

SpecConc == Init /\ [][NextConc]_vars

(***************************************************************************)
(* Specification of one path, from the moment the producer is spawned;     *)
(* the dual path starts with the construction of its adapter.              *)
(***************************************************************************)
PInit ==
    /\ now = 0
    /\ write_successfull_timestamp = 0
    /\ poll_exc = "none"
    /\ q = <<>>
    /\ video_live = [i \in Sources |-> FALSE]
    /\ video_last_image_counter = [i \in Sources |-> 0]
    /\ secondary = FALSE
    /\ connected = [i \in Sources |-> FALSE]
    /\ last_frame_number = -1
    /\ last_use_secondary = -1
    /\ use_secondary = -1
    /\ read_failed = "none"
    /\ last_put = NoFrame
    /\ observed = [i \in Sources |-> -1]
    /\ fetched = FALSE
    /\ slept = FALSE
    /\ logged = "none"
    /\ last_frame = NoFrame
    /\ emitted = NoFrame
    /\ emitted_n = [i \in Sources |-> -1]
    /\ nchunks = 0

PipeInit ==
    /\ max_concurrent_streams = 1
    /\ SInit
    /\ PInit
    /\ JIdle
    /\ TInit
    /\ AInit
    /\ variant \in Variants
    /\ sink \in (IF variant \in {"test", "lima"} THEN {"queue", "pipe"}
                 ELSE {"queue"})
    /\ ffmpeg = IF sink = "pipe" THEN "running" ELSE "none"
    /\ ffmpeg_streamer = IF sink = "pipe" THEN FfmpegStarted
                         ELSE FfmpegUnstarted
    /\ ppc = IF variant = "mjpeg" THEN "mj_read"
             ELSE IF variant = "duo" THEN "init" ELSE "poll"
    /\ cpc = IF sink = "pipe" THEN "ended"
             ELSE IF variant = "duo" THEN "none" ELSE "first"

PipeNext ==
    \/ \E ok0, has_uri1, ok1 \in BOOLEAN : DuoConnect(ok0, has_uri1, ok1)
    \/ TestPollOnce
    \/ \E fail \in {"none", "count0", "image"} : LimaPollOnce(fail)
    \/ \E fail \in {"none", "live0", "count0", "live1", "count1", "image",
                    "short", "dims"} :
           DuoPollOnce(fail)
    \/ PollImageHandle
    \/ MjpegRead
    \/ MjpegPut
    \/ \E i \in Sources : DeviceFrame(i)
    \/ \E i \in Sources : DeviceLive(i)
    \/ FfmpegExit
    \/ Tick
    \/ StreamerFirstGet
    \/ StreamerLoop
    \/ DuoStreamerLoop

SpecPipe == PipeInit /\ [][PipeNext]_vars

(***************************************************************************)
(* The single-stream application (create_mjpeg_app): one MJPEGStreamer     *)
(* serves every request; video_feed calls streamer.start() for each of     *)
(* them.  The producer spawned for frame sequence g is process g.          *)
(***************************************************************************)
Feeds == 1..MaxFeeds

\* video_feed: StreamingResponse(streamer.start()); start() is a generator
\* function, so the call only creates the frame sequence
MjpegVideoFeed(g) ==
    /\ ~mjpeg_stopped
    /\ mjpeg_gen[g] = "none"
    /\ \A h \in Feeds : h < g => mjpeg_gen[h] # "none"
    /\ mjpeg_gen' = [mjpeg_gen EXCEPT ![g] = "created"]
    /\ UNCHANGED <<svars, pvars, jvars, tvars, mjpeg_poll_image_p,
                   mjpeg_alive, mjpeg_stopped>>

\* MJPEGStreamer.start, lines 42-47, run at the first next() of the frame
\* sequence: a new Queue(1), a new Process, and self._poll_image_p is
\* overwritten with it
MjpegStart(g) ==
    /\ ~mjpeg_stopped
    /\ mjpeg_gen[g] = "created"
    /\ mjpeg_gen' = [mjpeg_gen EXCEPT ![g] = "running"]
    /\ mjpeg_poll_image_p' = g
    /\ mjpeg_alive' = mjpeg_alive \cup {g}
    /\ UNCHANGED <<svars, pvars, jvars, tvars, mjpeg_stopped>>

\* the client of a frame sequence disconnects: the generator is closed,
\* nothing in start() reacts to it
MjpegDisconnect(g) ==
    /\ mjpeg_gen[g] \in {"created", "running"}
    /\ mjpeg_gen' = [mjpeg_gen EXCEPT ![g] = "closed"]
    /\ UNCHANGED <<svars, pvars, jvars, tvars, mjpeg_poll_image_p,
                   mjpeg_alive, mjpeg_stopped>>

\* Camera.poll_image ends by itself: nobody reads its queue any more and
\* FULL_QUEUE_TIMEOUT went by
MjpegProducerQuit(p) ==
    /\ p \in mjpeg_alive
    /\ mjpeg_gen[p] = "closed"
    /\ mjpeg_alive' = mjpeg_alive \ {p}
    /\ UNCHANGED <<svars, pvars, jvars, tvars, mjpeg_gen,
                   mjpeg_poll_image_p, mjpeg_stopped>>

\* the shutdown event: MJPEGStreamer.stop, lines 69-71
MjpegStop ==
    /\ ~mjpeg_stopped
    /\ mjpeg_stopped' = TRUE
    /\ mjpeg_alive' = IF mjpeg_poll_image_p # None
                      THEN mjpeg_alive \ {mjpeg_poll_image_p}
                      ELSE mjpeg_alive
    /\ UNCHANGED <<svars, pvars, jvars, tvars, mjpeg_gen,
                   mjpeg_poll_image_p>>

AppInit ==
    /\ max_concurrent_streams = 1
    /\ SInit
    /\ PIdle
    /\ JIdle
    /\ TInit
    /\ AInit

AppNext ==
    \/ \E g \in Feeds : MjpegVideoFeed(g)
    \/ \E g \in Feeds : MjpegStart(g)
    \/ \E g \in Feeds : MjpegDisconnect(g)
    \/ \E p \in Feeds : MjpegProducerQuit(p)
    \/ MjpegStop

SpecApp == AppInit /\ [][AppNext]_vars

(***************************************************************************)
(* Specification of get_jpeg: the configuration and the buffers are drawn  *)
(* from small sets.                                                        *)
(***************************************************************************)
\* the sources a LimaCameraDuo is connected to: width, height, video_mode
SmallSources ==
    {[w |-> w, h |-> h, m |-> m] :
        w \in 1..MaxDim, h \in 1..MaxDim, m \in VideoModes}
\* a source in a video mode get_jpeg has no entry for
Y16Source == [w |-> 1, h |-> 1, m |-> "Y16"]
VgaSource == [w |-> 640, h |-> 480, m |-> "RGB24"]
QvgaSource == [w |-> 320, h |-> 240, m |-> "Y8"]
\* the secondary did not connect: the values of __init__ remain
AbsentSource == [w |-> -1, h |-> -1, m |-> "RGB24"]

\* the transform configurations tried
NoTransform ==
    [resize |-> [i \in Sources |-> <<0, 0>>],
     crop |-> [i \in Sources |-> <<0, 0>>],
     rotate |-> [i \in Sources |-> 0],
     flip |-> [i \in Sources |-> <<FALSE, FALSE>>]]
Transforms ==
    {NoTransform,
     [NoTransform EXCEPT !.resize = (0 :> <<1, 2>> @@ 1 :> <<0, 0>>)],
     [NoTransform EXCEPT !.crop = (0 :> <<0, 0>> @@ 1 :> <<1, 1>>)],
     [resize |-> (0 :> <<2, 1>> @@ 1 :> <<1, 2>>),
      crop |-> (0 :> <<1, 1>> @@ 1 :> <<1, 1>>),
      rotate |-> (0 :> 90 @@ 1 :> 180),
      flip |-> (0 :> <<TRUE, FALSE>> @@ 1 :> <<TRUE, TRUE>>)]}

\* the buffer lengths tried
Lengths ==
    {DataNone, 0} \cup 1..(3 * MaxDim * MaxDim + 1) \cup {76800, 921600}

GetJpeg ==
    /\ jpc = "call"
    /\ result' = get_jpeg(len_data, dont_resize)
    /\ jpc' = "returned"
    /\ UNCHANGED <<appvars, tvars, svars, pvars, camvars, len_data,
                   dont_resize>>

NextBuffer ==
    /\ jpc = "returned"
    /\ len_data' \in Lengths
    /\ dont_resize' \in BOOLEAN
    /\ result' = NoneResult
    /\ jpc' = "call"
    /\ UNCHANGED <<appvars, tvars, svars, pvars, camvars>>

JpegInit ==
    /\ max_concurrent_streams = 1
    /\ SInit
    /\ PIdle
    /\ TInit
    /\ AInit
    /\ \E p \in SmallSources \cup {VgaSource, Y16Source},
          s \in SmallSources \cup {QvgaSource, Y16Source, AbsentSource} :
          /\ widths = (0 :> p.w @@ 1 :> s.w)
          /\ heights = (0 :> p.h @@ 1 :> s.h)
          /\ video_modes = (0 :> p.m @@ 1 :> s.m)
    /\ \E t \in Transforms :
          /\ images_resize = t.resize
          /\ images_crop = t.crop
          /\ images_rotate = t.rotate
          /\ images_flip = t.flip
    /\ len_data = DataNone
    /\ dont_resize = FALSE
    /\ jpc = "returned"
    /\ result = NoneResult

JpegNext ==
    \/ GetJpeg
    \/ NextBuffer

SpecJpeg == JpegInit /\ [][JpegNext]_vars

(***************************************************************************)
(* Specification of the device controller: commands are served one after   *)
(* another; the server process may end at any time.                        *)
(***************************************************************************)
TangoInit ==
    /\ max_concurrent_streams = 1
    /\ SInit
    /\ PIdle
    /\ JIdle
    /\ TInit
    /\ AInit

TangoNext ==
    \/ \E bound, up \in BOOLEAN : startStreaming(bound, up)
    \/ \E p \in 1..MaxStarts : ServerDies(p)
    \/ ShutdownStreamNothing
    \/ ShutdownStreamBegin
    \/ \E outcome \in {"ok", "failed", "timeout"} : ShutdownGet(outcome)
    \/ \E raises \in BOOLEAN : ShutdownTerm(raises)
    \/ \E raises \in BOOLEAN : ShutdownKill(raises)
    \/ ShutdownStreamClear

SpecTango == TangoInit /\ [][TangoNext]_vars

(***************************************************************************)
(* Properties of the session manager.                                      *)
(***************************************************************************)
\* the producers spawned by streamer s that are running
Producers(s) == {p \in alive : owner[p] = s}

\* a video_feed handler inserts its new session in this step
Inserts(t) == hpc[t] = "vf_create" /\ hpc'[t] = "vf_return"

\* C1: the number of sessions in client2streamer never exceeds
\* max_concurrent_streams, and a new session is inserted only below
\* capacity: if the handler met a full map, the session it picked has been
\* stopped and removed before the insertion.
SessionCapRespected ==
    /\ [](Len(client2streamer) <= max_concurrent_streams)
    /\ [][\A t \in Threads : Inserts(t) =>
            /\ Len(client2streamer) < max_concurrent_streams
            /\ hgoodbye[t] # NoGoodbye =>
                 /\ hgoodbye[t].streamer \in stopped
                 /\ hgoodbye[t].streamer \notin Streamers(client2streamer)
                 /\ hgoodbye[t].client \notin Keys(client2streamer)]_vars

\* a request met a full map, evicted, and inserted its session
EvictedThenInserted ==
    \E t \in Threads :
        /\ hpc[t] = "vf_return"
        /\ hgoodbye[t] # NoGoodbye
        /\ hclient[t] \in Keys(client2streamer)
        /\ hgoodbye[t].client \notin Keys(client2streamer)
        /\ Len(client2streamer) = max_concurrent_streams

\* C2: a request from a client without a session that meets a full map
\* stops and removes exactly one session, the earliest created of those in
\* the map (streamers are numbered in creation order); its producer is not
\* running after stop(), its key is gone after pop(), the other items stay
\* in order.  With max_concurrent_streams = 2 and sessions created for three
\* distinct clients A, B, C in this order, A's session is stopped and absent
\* and B's and C's are present.
EvictsEarliestCreated ==
    /\ [][\A t \in Threads :
            /\ (hpc[t] = "vf_stop" /\ hpc'[t] = "vf_pop") =>
                 LET s == hgoodbye[t].streamer IN
                 /\ Len(client2streamer) = max_concurrent_streams
                 /\ s \in Streamers(client2streamer)
                 /\ \A r \in Streamers(client2streamer) : s <= r
                 /\ poll_image_p'[s] = None
                 /\ {p \in alive' : owner'[p] = s} = {}
                 /\ \A r \in Sids \ {s} : poll_image_p'[r] = poll_image_p[r]
                 /\ alive \ alive' \subseteq {p \in Pids : owner[p] = s}
            /\ (hpc[t] = "vf_pop" /\ hpc'[t] = "vf_create") =>
                 LET s == hgoodbye[t].streamer IN
                 /\ Streamers(client2streamer') =
                        Streamers(client2streamer) \ {s}
                 /\ Keys(client2streamer') =
                        Keys(client2streamer) \ {hgoodbye[t].client}
                 /\ Len(client2streamer') = Len(client2streamer) - 1
                 /\ hclient[t] \notin Keys(client2streamer)
                 /\ client2streamer' = Tail(client2streamer)]_vars
    /\ []((/\ AllIdle
           /\ max_concurrent_streams = 2
           /\ nsessions = 3
           /\ Cardinality({fastapi_request[s] : s \in 1..3}) = 3)
          => /\ 1 \in stopped
             /\ poll_image_p[1] = None
             /\ fastapi_request[1] \notin Keys(client2streamer)
             /\ client2streamer =
                  <<[client |-> fastapi_request[2], streamer |-> 2],
                    [client |-> fastapi_request[3], streamer |-> 3]>>)

\* clients A, B, C requested in this order with max_concurrent_streams = 2,
\* A's producer was running when C's request arrived
ThirdClientEvictedFirst ==
    /\ AllIdle
    /\ max_concurrent_streams = 2
    /\ nsessions = 3
    /\ fastapi_request = [s \in Sids |-> IF s <= 3 THEN s ELSE None]
    /\ owner[1] = 1
    /\ 1 \in stopped
    /\ Keys(client2streamer) = {2, 3}

\* C10: once stop() has been called on a session and the handler that
\* called it has finished, the session has no running producer, its handle
\* is cleared and it is not in client2streamer.
StopTerminatesAndRemoves ==
    AllIdle =>
        \A s \in stopped :
            /\ poll_image_p[s] = None
            /\ Producers(s) = {}
            /\ s \notin Streamers(client2streamer)

(***************************************************************************)
(* Properties of the producer -> channel -> consumer path.                 *)
(***************************************************************************)
\* C3: latest-value-wins: the frame pending in the channel, which the next
\* read returns, is the frame most recently handed to _write_data; a write
\* into a full channel replaces the pending frame.
LatestValueWins == q # <<>> => Head(q) = last_put

\* C4: the Frame Channel holds at most one frame in every reachable state.
ChannelHoldsAtMostOne == Len(q) <= 1

\* the channel holds a frame and a later write into it was rejected
WriteIntoFullChannel ==
    /\ Len(q) = 1
    /\ last_put # NoFrame
    /\ last_put # Head(q)

\* a step of the producer at a position where it writes to the channel
ProducerWrite ==
    \/ TestPollOnce
    \/ \E fail \in {"none", "count0", "image"} : LimaPollOnce(fail)
    \/ \E fail \in {"none", "live0", "count0", "live1", "count1", "image"} :
           DuoPollOnce(fail)
    \/ MjpegPut

\* C5: backpressure never blocks: in every variant, a producer that is
\* about to write can take its step whatever the channel holds.
BackpressureNeverBlocks ==
    (ppc \in {"poll", "mj_put"}) => ENABLED ProducerWrite

\* C6: idle self-termination: a poll cycle that ends more than
\* FULL_QUEUE_TIMEOUT after the last successful write ends the polling loop,
\* whether _poll_once returned or raised.
IdleSelfTermination ==
    [][(/\ ppc = "handled"
        /\ now - write_successfull_timestamp > FULL_QUEUE_TIMEOUT
        /\ ppc' # ppc)
       => ppc' = "done"]_vars

\* a cycle of LimaCameraDuo._poll_once
DuoCycle == variant = "duo" /\ ppc = "poll" /\ ppc' = "handled"

\* the selection rule on the live flags as they are in this cycle
SelectionFollowsRule ==
    /\ video_live[0] => use_secondary' = 0
    /\ (~video_live[0] /\ secondary /\ video_live[1]) => use_secondary' = 1
    /\ (~video_live[0] /\ ~(secondary /\ video_live[1])) =>
           (use_secondary' = -1 /\ q' = q)

\* C9 as stated: in every cycle of LimaCameraDuo._poll_once the primary is
\* selected if its live flag is true, else the secondary if it is connected
\* and its live flag is true, else no source is selected and nothing is
\* written to the channel.
SelectionRuleEveryCycle == [][DuoCycle => SelectionFollowsRule]_vars

\* C9 amended: the selection rule holds in every cycle in which the reads
\* of the live flags and of the selected source's frame counter succeed; in
\* a cycle in which one of these reads raises, no source is selected and
\* nothing is written to the channel.
SelectionRuleWhenReadsSucceed ==
    [][DuoCycle =>
         IF read_failed' = "attr"
         THEN use_secondary' = -1 /\ q' = q
         ELSE SelectionFollowsRule]_vars

\* the primary was not live, the secondary was selected and its frame
\* written
SecondarySelectedAndWritten ==
    /\ variant = "duo"
    /\ ppc = "handled"
    /\ ~video_live[0]
    /\ use_secondary = 1
    /\ read_failed = "none"
    /\ q = <<Frame(1, video_last_image_counter[1])>>

(***************************************************************************)
(* Properties of get_jpeg.                                                 *)
(***************************************************************************)
\* the expected byte length of source i: width x height x bytes per pixel
ExpectedLength(i) == widths[i] * heights[i] * VIDEO_BYTES(video_modes[i])

\* both sources are connected, in video modes get_jpeg knows
BothSources ==
    /\ \A i \in Sources : widths[i] > 0 /\ heights[i] > 0
    /\ \A i \in Sources : video_modes[i] \in VideoModes

\* C7: ambiguous-size detection: when both sources have the same expected
\* byte length, a buffer of that length gets the error outcome (None, None)
\* and is attributed to neither source.
AmbiguousSizeFlagged ==
    (/\ jpc = "returned"
     /\ BothSources
     /\ ExpectedLength(0) = ExpectedLength(1)
     /\ len_data = ExpectedLength(0))
    => (result.camera_index = -1 /\ ~result.jpeg)

ShutdownStopsEverySession ==
    server # "running" =>
        \A s \in Streamers(client2streamer) :
            /\ s \in stopped
            /\ Producers(s) = {}

\* some session has produced a frame: its consumer stored a _last_frame
SomeSessionProducedFrame == \E s \in Sids : session_last_frame[s]

\* C12: /last_image answers 404 exactly when no session has ever produced
\* a frame, and answers with a JPEG body whenever some session has, also
\* when the most recently created session has no frame yet.
LastImageNotFoundIffNoFrame ==
    [][\A t \in Threads :
         (hpc[t] \in {"li_key", "li_get"} /\ hpc'[t] = "idle") =>
            /\ last_image_response' = "404" <=> ~SomeSessionProducedFrame
            /\ SomeSessionProducedFrame => last_image_response' = "jpeg"]_vars

\* C13: a stream request from a client identity that already has a session
\* gets that same session: the handler goes from the lookup straight to
\* the response, constructs no session, stops and evicts none (also with
\* the map at capacity), and leaves client2streamer, keys and order, as it
\* was.
ExistingClientReusesSession ==
    [][\A t \in Threads :
         /\ (/\ hpc[t] = "idle"
             /\ hpc'[t] \notin {"idle", "sd_loop", "li_key"}
             /\ hclient'[t] \in Keys(client2streamer))
            => /\ hpc'[t] = "vf_return"
               /\ hstreamer'[t] = Lookup(client2streamer, hclient'[t])
               /\ hgoodbye'[t] = NoGoodbye
               /\ UNCHANGED <<client2streamer, nsessions, stopped, alive,
                              poll_image_p>>
         /\ (/\ hpc[t] = "vf_return"
             /\ hpc'[t] = "idle"
             /\ hgoodbye[t] = NoGoodbye
             /\ \E g \in 1..Len(gens) : gens[g].streamer = hstreamer[t])
            => /\ gens'[Len(gens')].streamer = hstreamer[t]
               /\ Lookup(client2streamer', hclient[t]) = hstreamer[t]
               /\ UNCHANGED <<client2streamer, nsessions, stopped, alive,
                              poll_image_p>>]_vars

\* with the map at capacity, a client that already streams has requested
\* again and the handler is about to respond with its session
ExistingClientAtCapacity ==
    \E t \in Threads :
        /\ hpc[t] = "vf_return"
        /\ hgoodbye[t] = NoGoodbye
        /\ Len(client2streamer) = max_concurrent_streams
        /\ max_concurrent_streams = 2
        /\ \E g \in 1..Len(gens) : gens[g].streamer = hstreamer[t]
        /\ stopped = {}

\* a target size that is applied: both of its numbers are positive
Positive(target) == target[1] > 0 /\ target[2] > 0

\* the transforms of source i in the order the claim gives them
CropFirstOps(i) ==
    (IF Positive(images_crop[i]) THEN <<"crop">> ELSE <<>>)
    \o (IF Positive(images_resize[i]) THEN <<"resize">> ELSE <<>>)
    \o (IF images_rotate[i] \in {90, 180, 270} THEN <<"rotate">> ELSE <<>>)
    \o (IF images_flip[i][1] THEN <<"flip_h">> ELSE <<>>)
    \o (IF images_flip[i][2] THEN <<"flip_v">> ELSE <<>>)

ResizeFirstOps(i) ==
    (IF Positive(images_resize[i]) THEN <<"resize">> ELSE <<>>)
    \o (IF Positive(images_crop[i]) THEN <<"crop">> ELSE <<>>)
    \o (IF images_rotate[i] \in {90, 180, 270} THEN <<"rotate">> ELSE <<>>)
    \o (IF images_flip[i][1] THEN <<"flip_h">> ELSE <<>>)
    \o (IF images_flip[i][2] THEN <<"flip_v">> ELSE <<>>)

EmittedNonDecreasing ==
    [][(emitted # NoFrame /\ emitted' # emitted) =>
          emitted'.n >= emitted.n]_vars

\* C15 amended: once the consumer has emitted a frame of a source it never
\* afterwards emits a frame of that same source with a smaller sequence
\* number, under every interleaving of producer and consumer.
EmittedNonDecreasingPerSource ==
    [][\A i \in Sources : emitted_n'[i] >= emitted_n[i]]_vars

\* the consumer of the dual path has emitted frames of both sources and is
\* back on the primary with a later frame than its first
BothSourcesEmitted ==
    /\ variant = "duo"
    /\ emitted_n[0] >= 1
    /\ emitted_n[1] >= 0
    /\ emitted.src = 0

\* no source is live: the primary is not, and the secondary is absent or
\* not live
NoSourceLive == ~video_live[0] /\ ~(secondary /\ video_live[1])

\* C16: content pause: an iteration of MJPEGDuoStreamer.start that finds
\* the channel empty while no source is live yields no chunk, also when the
\* consumer holds a previously delivered last frame.
ContentPauseWhenNoSourceLive ==
    [][(/\ variant = "duo"
        /\ cpc = "loop"
        /\ NoSourceLive
        /\ q = <<>>)
       => nchunks' = nchunks]_vars

(***************************************************************************)
(* Properties of the polling loop.                                         *)
(***************************************************************************)
\* a poll cycle in which _poll_once raised leaves the channel and the
\* change detection as they were
FailedCycleWritesNothing ==
    (ppc = "poll" /\ ppc' = "handled" /\ poll_exc' # "none") =>
        (q' = q /\ last_frame_number' = last_frame_number)

\* C17 as stated: any failure raised during a poll cycle is handled inside
\* Camera.poll_image, counts as no new frame in this cycle and is followed
\* by another poll cycle; the producer leaves its loop only through idle
\* self-termination.
FailuresNeverEscape ==
    [][/\ FailedCycleWritesNothing
       /\ (ppc = "handled" /\ ppc' # "handled") =>
             IF poll_exc # "none"
             THEN ppc' = "poll"
             ELSE \/ ppc' = "poll"
                  \/ /\ ppc' = "done"
                     /\ now - write_successfull_timestamp
                            > FULL_QUEUE_TIMEOUT]_vars

\* C17 amended: a BrokenPipeError raised by the write to the sink ends the
\* producer process; any other failure raised during a poll cycle is
\* handled inside Camera.poll_image, counts as no new frame in this cycle
\* and is followed by another poll cycle; otherwise the producer leaves its
\* loop only through idle self-termination.
FailuresEscapeOnlyOnBrokenPipe ==
    [][/\ FailedCycleWritesNothing
       /\ (ppc = "handled" /\ ppc' # "handled") =>
             IF poll_exc = "BrokenPipeError"
             THEN ppc' = "exited"
             ELSE IF poll_exc # "none"
             THEN ppc' = "poll"
             ELSE \/ ppc' = "poll"
                  \/ /\ ppc' = "done"
                     /\ now - write_successfull_timestamp
                            > FULL_QUEUE_TIMEOUT]_vars

\* a device read raised in the last cycle and the producer is about to
\* poll again
PollsAgainAfterFailure ==
    /\ variant = "lima"
    /\ poll_exc = "Exception"
    /\ ppc = "poll"

\* C20: per-source change detection: in a cycle of LimaCameraDuo._poll_once
\* in which source s is selected, the frame is fetched exactly when s's
\* frame counter differs from the counter last fetched from that same
\* source s; the counter of the other source neither makes a new frame of
\* s be skipped nor makes an unchanged frame of s be fetched again.
PerSourceChangeDetection ==
    [][(DuoCycle /\ use_secondary' # -1) =>
          (fetched' <=>
             video_last_image_counter[use_secondary']
                 # observed[use_secondary'])]_vars

(***************************************************************************)
(* Properties of the session manager under concurrent handlers.            *)
(***************************************************************************)
\* C18: client2streamer behaves as a single critical section: with
\* handlers running concurrently the map never holds more than
\* max_concurrent_streams sessions, no two handlers evict the same session,
\* and no handler fails on a key or an iteration that a concurrent handler
\* changed.
MapIsCriticalSection ==
    /\ Len(client2streamer) <= max_concurrent_streams
    /\ handler_error = "none"
    /\ \A t, u \in Threads :
         (/\ t # u
          /\ hpc[t] \in {"vf_stop", "vf_pop"}
          /\ hpc[u] \in {"vf_stop", "vf_pop"})
         => hgoodbye[t].streamer # hgoodbye[u].streamer

(***************************************************************************)
(* Properties of the device controller.                                    *)
(***************************************************************************)
\* C19: two-phase shutdown: shutdown_uvicorn_server first sends the
\* graceful GET /shutdown; whether that request succeeded, failed or timed
\* out it then goes on to the forced phase, SIGTERM first and SIGKILL after
\* it (the SIGKILL follows every SIGTERM that was sent without raising);
\* whatever fails, the function returns to shutdownStream, which clears the
\* device's record.
TwoPhaseShutdown ==
    /\ [](/\ sd_trace # <<>> => sd_trace[1] = "GET"
          /\ tpc \in {"sd_kill", "sd_clear"} =>
                /\ Len(sd_trace) >= 2
                /\ SubSeq(sd_trace, 1, 2) = <<"GET", "SIGTERM">>
          /\ tpc = "sd_clear" =>
                sd_trace = IF kill_raised = "SIGTERM"
                           THEN <<"GET", "SIGTERM">>
                           ELSE <<"GET", "SIGTERM", "SIGKILL">>)
    /\ [][/\ (tpc = "sd_get" /\ tpc' # tpc) =>
               (tpc' = "sd_term" /\ get_outcome' \in {"ok", "failed", "timeout"})
          /\ (tpc = "sd_term" /\ tpc' # tpc) => tpc' \in {"sd_kill", "sd_clear"}
          /\ (tpc = "sd_kill" /\ tpc' # tpc) => tpc' = "sd_clear"
          /\ (tpc = "sd_clear" /\ tpc' # tpc) =>
               (tpc' = "idle" /\ streamerProcess' = None)]_vars

\* the graceful request timed out and the forced phase was carried out
ForcedAfterTimeout ==
    /\ tpc = "sd_clear"
    /\ get_outcome = "timeout"
    /\ sd_trace = <<"GET", "SIGTERM", "SIGKILL">>
    /\ kill_raised = "none"

\* C21: every poll attempt of a hardware source adapter (LimaCamera,
\* LimaCameraDuo) reaches the idle sleep before the next attempt begins,
\* when it succeeded and when a read failed.
SleepAfterEveryPoll ==
    [][(/\ variant \in {"lima", "duo"}
        /\ ppc = "poll"
        /\ ppc' = "handled")
       => slept']_vars

\* one read of the frame channel by the consumer, in any variant
ConsumerRead == StreamerFirstGet \/ StreamerLoop \/ DuoStreamerLoop

\* C22: the consumer never blocks on the frame channel: whenever the frame
\* sequence is at a read, the first one included, the read can complete
\* whatever the channel holds.
ConsumerNeverBlocks == cpc \in {"first", "loop"} => ENABLED ConsumerRead

\* C23: one producer per streamer: at most one producer spawned by the
\* streamer is alive at any time, and after stop() none is alive.
OneProducerPerStreamer ==
    /\ Cardinality(mjpeg_alive) <= 1
    /\ mjpeg_stopped => mjpeg_alive = {}

\* C24: connect-failure policy of the dual adapter at construction: a failed
\* primary connect ends the process with exit(-1) and nothing ever polls; a
\* failed secondary connect lets the construction complete, and no poll
\* cycle ever selects the secondary that did not connect.
ConnectFailurePolicy ==
    (variant = "duo" /\ ppc # "init") =>
        /\ ppc = "exit(-1)" <=> ~connected[0]
        /\ ppc = "exit(-1)" =>
               use_secondary = -1 /\ q = <<>> /\ cpc = "none"
        /\ ~connected[1] => use_secondary # 1 /\ last_use_secondary # 1

\* the secondary did not connect and is live while the primary is not, and
\* a poll cycle has run and selected no source
SecondaryAbsentAndLive ==
    /\ variant = "duo"
    /\ connected[0]
    /\ ~connected[1]
    /\ ~video_live[0]
    /\ video_live[1]
    /\ ppc = "handled"
    /\ use_secondary = -1
    /\ read_failed = "none"

\* C25: a raw buffer shorter than the header, or whose header carries a
\* non-positive width or height, is rejected: the cycle writes nothing,
\* does not advance the last-observed counter, and the loop continues.
MalformedHeaderSkipped ==
    [][(DuoCycle /\ read_failed' \in {"short", "dims"}) =>
           /\ UNCHANGED <<q, last_put, last_frame_number>>
           /\ poll_exc' = "none"]_vars

\* C26: once the encoder has exited under a producer that was writing to
\* its input, and the producer has met the broken pipe, the failure is
\* visible in the state of the FFMPGStreamer; the server keeps running.
TranscodeFailureVisible ==
    (sink = "pipe" /\ ffmpeg = "exited" /\ ppc = "exited") =>
        /\ ffmpeg_streamer # FfmpegStarted
        /\ server = "running"

\* the transition log that tells of the selection us
LogOf(us) ==
    IF us = 1 THEN "secondary" ELSE IF us = 0 THEN "primary" ELSE "pausing"

\* C27: between consecutive poll cycles of the dual multiplexer, a cycle
\* emits a transition log exactly when its selection differs from the
\* previous cycle's selection.
TransitionLogEveryChange ==
    [][(DuoCycle /\ slept) =>
           (logged' # "none" <=> use_secondary' # use_secondary)]_vars

\* C27, amended: a cycle whose reads succeed emits the transition log of
\* its selection exactly when that selection differs from the selection of
\* the latest earlier cycle whose reads succeeded; a cycle in which a read
\* raises emits none and is not remembered.
TransitionLogWhenReadsSucceed ==
    [][DuoCycle =>
           IF read_failed' = "attr"
           THEN logged' = "none" /\ UNCHANGED last_use_secondary
           ELSE /\ logged' = IF use_secondary' # last_use_secondary
                             THEN LogOf(use_secondary')
                             ELSE "none"
                /\ last_use_secondary' = use_secondary']_vars

\* the primary was streamed, and the last cycle changed to the secondary
\* and logged it
ChangeToSecondaryLogged ==
    /\ variant = "duo"
    /\ ppc = "handled"
    /\ observed[0] >= 0
    /\ use_secondary = 1
    /\ logged = "secondary"

\* the newest frame that reached the consumer's side of the channel: the
\* frame in the channel, or else the frame the consumer took last
NewestInChannel == IF q # <<>> THEN Head(q) ELSE last_frame

\* C28: freshness after a drop: the producer records a frame number as
\* delivered only when that frame was written, so the frame whose number
\* the producer remembers is in the channel or at the consumer, and a
\* source that stops at that number does not leave it skipped for ever.
RecordedFrameWasWritten ==
    (variant \in {"lima", "duo"} /\ sink = "queue"
         /\ last_frame_number # -1) =>
        NewestInChannel.n = last_frame_number

\* C29: stream recovery: a producer does not end by itself while its
\* consumer is attached and reading.  In particular, while no frame was
\* ever handed to the channel (the source is idle, or no source is live),
\* the channel was never full, no read of it was ever missed, and the
\* idle timeout does not end the polling loop, so that the frames the
\* source produces later still reach the same client.
NoSelfTerminationWhileSourceIdle ==
    [][~(/\ sink = "queue"
         /\ cpc \in {"first", "loop"}
         /\ last_put = NoFrame
         /\ ppc = "handled"
         /\ ppc' = "done")]_vars

\* C30: after stop() on a dual-stream session, by the shutdown request or
\* by eviction, the frame sequence its start() returned yields no further
\* multipart chunk.
NoChunkAfterStop == \A g \in 1..Len(gens) : ~gens[g].late

\* C31: a stream request answered with an existing session gets a frame
\* sequence that emits frames: a start() on a session whose producer handle
\* is already set does not return a sequence that ends at once, empty.
SecondStartNotEmpty == \A g \in 1..Len(gens) : gens[g].st # "ended"

\* the device's record of its streaming server
DeviceRecord == <<streamerProcess, videoURL, startedHost, startedPort>>

\* C32: the device controller's state machine.  The device records at most
\* one server process, and at most one server it forked is alive; a process
\* is forked only when none is recorded, and a command that finds a process
\* recorded and does not shut it down leaves the record unchanged; the
\* recorded process is absent iff the recorded URL, host and port are all
\* empty; and shutdownStream, like a failed start, leaves the record as
\* init_device made it.
DeviceStateMachine ==
    [][/\ streamerProcess' \in Started' \cup {None}
       /\ Cardinality({p \in Started' : uvicorn'[p] = "alive"}) <= 1
       /\ nstarts' # nstarts => streamerProcess = None
       /\ (tpc = "idle" /\ tpc' = "idle" /\ streamerProcess # None) =>
              UNCHANGED <<DeviceRecord, nstarts>>
       /\ streamerProcess' = None <=>
              (videoURL' = "" /\ startedHost' = "" /\ startedPort' = "")
       /\ (tpc = "sd_clear" /\ tpc' = "idle") =>
              DeviceRecord' = <<None, "", "", "">>
       /\ (nstarts' # nstarts /\ tresult' # "Streaming") =>
              DeviceRecord' = <<None, "", "", "">>]_vars

\* a server was started, shut down, and a second one is recorded and alive
StartedAgainAfterShutdown ==
    /\ tpc = "idle"
    /\ sd_trace # <<>>
    /\ streamerProcess = 2
    /\ uvicorn[2] = "alive"
    /\ videoURL # ""
    /\ tresult = "Streaming"
====
